---- MODULE Spec2Model ----
(***************************************************************************)
(* A model of the AGU retrieval-augmented chatbot: the query pipeline of   *)
(* api.py (startup, retrieval, language resolution, prompt assembly,       *)
(* answer extraction) and the ingestion pipeline of scripts/embed_data.py  *)
(* (chunking, id assignment, batched store writes).                        *)
(*                                                                         *)
(* A text is a sequence of characters; a character is a one-character      *)
(* string, except that characters outside ASCII carry a name               *)
(* ("s_cedilla", "I_DOT", "ldquo", ...) and a fixed literal of a template  *)
(* is one atom ("<rules:en>").                                             *)
(***************************************************************************)
EXTENDS Naturals, Integers, Sequences, FiniteSets, TLC

\* ------------------------------------------------------------------ bounds

\* Longest result list the store returns for one query in the model.
MaxResults == 3
\* Longest input document list of one ingestion run in the model.
MaxDocs == 3
\* Most chunks the text splitter yields for one document in the model.
MaxChunksPerDoc == 2
\* Ingestion runs against the same store in the model.
MaxRuns == 2
\* Most pieces a raw generator output is assembled from in the model.
MaxPieces == 4
\* Largest batch_size handed to embed_and_store in the model.
MaxBatch == 3
\* Longest text handed to detect_lang on its own in the model.
MaxTextLen == 4

\* ------------------------------------------------------------ characters

None == "None"
Loaded == "loaded"

LowerLetters ==
  <<"a","b","c","d","e","f","g","h","i","j","k","l","m",
    "n","o","p","q","r","s","t","u","v","w","x","y","z">>
UpperLetters ==
  <<"A","B","C","D","E","F","G","H","I","J","K","L","M",
    "N","O","P","Q","R","S","T","U","V","W","X","Y","Z">>

Range(f) == {f[i] : i \in DOMAIN f}

IndexOf(seq, c) == CHOOSE i \in DOMAIN seq : seq[i] = c

\* str.lower() on one character: ASCII upper case maps to lower case, the
\* Turkish capitals map to their small letters, and the dotted capital I maps to
\* the two code points "i" + U+0307.
LowerChar(c) ==
  CASE c \in Range(UpperLetters) -> <<LowerLetters[IndexOf(UpperLetters, c)]>>
    [] c = "C_CEDILLA" -> <<"c_cedilla">>
    [] c = "G_BREVE" -> <<"g_breve">>
    [] c = "O_DIAERESIS" -> <<"o_diaeresis">>
    [] c = "S_CEDILLA" -> <<"s_cedilla">>
    [] c = "U_DIAERESIS" -> <<"u_diaeresis">>
    [] c = "I_DOT" -> <<"i", "combining_dot">>
    [] OTHER -> <<c>>

RECURSIVE Lower(_)
Lower(s) == IF s = <<>> THEN <<>> ELSE LowerChar(Head(s)) \o Lower(Tail(s))

\* The characters the regular expression class [a-zA-Z] matches.
IsAsciiLetter(c) == c \in Range(LowerLetters) \cup Range(UpperLetters)

\* Characters str.strip() removes.
Whitespace == {" ", "\n", "\t"}

RECURSIVE LStrip(_)
LStrip(s) ==
  IF s # <<>> /\ Head(s) \in Whitespace THEN LStrip(Tail(s)) ELSE s

RECURSIVE RStrip(_)
RStrip(s) ==
  IF s # <<>> /\ s[Len(s)] \in Whitespace
    THEN RStrip(SubSeq(s, 1, Len(s) - 1))
    ELSE s

Strip(s) == RStrip(LStrip(s))

\* ------------------------------------------------------------ detect_lang

english_keywords ==
    {
      <<"w", "h", "o">>,
      <<"w", "h", "a", "t">>,
      <<"w", "h", "e", "r", "e">>,
      <<"w", "h", "e", "n">>,
      <<"w", "h", "y">>,
      <<"h", "o", "w">>,
      <<"i", "s">>,
      <<"a", "r", "e">>,
      <<"d", "o">>,
      <<"d", "o", "e", "s">>,
      <<"d", "i", "d">>,
      <<"c", "a", "n">>,
      <<"c", "o", "u", "l", "d">>,
      <<"s", "h", "o", "u", "l", "d">>,
      <<"w", "o", "u", "l", "d">>,
      <<"h", "a", "v", "e">>,
      <<"h", "a", "s">>,
      <<"h", "a", "d">>,
      <<"u", "n", "i", "v", "e", "r", "s", "i", "t", "y">>,
      <<"p", "r", "o", "g", "r", "a", "m">>,
      <<"m", "o", "b", "i", "l", "i", "t", "y">>,
      <<"i", "n", "t", "e", "r", "n", "s", "h", "i", "p">>,
      <<"s", "t", "u", "d", "y">>,
      <<"t", "r", "a", "i", "n", "e", "e", "s", "h", "i", "p">>,
      <<"e", "x", "c", "h", "a", "n", "g", "e">>,
      <<"a", "d", "m", "i", "t", "t", "e", "d">>,
      <<"a", "p", "p", "l", "i", "c", "a", "t", "i", "o", "n">>,
      <<"r", "e", "q", "u", "i", "r", "e", "m", "e", "n", "t", "s">>
    }

turkish_chars ==
  {"c_cedilla", "g_breve", "dotless_i", "o_diaeresis", "s_cedilla", "u_diaeresis",
   "C_CEDILLA", "G_BREVE", "I_DOT", "O_DIAERESIS", "S_CEDILLA", "U_DIAERESIS"}

\* re.findall(r"[a-zA-Z]+", s): the maximal runs of ASCII letters, left to
\* right; cur is the run being read.
RECURSIVE FindAllRuns(_, _)
FindAllRuns(s, cur) ==
  IF s = <<>>
    THEN IF cur = <<>> THEN <<>> ELSE <<cur>>
    ELSE IF IsAsciiLetter(Head(s))
      THEN FindAllRuns(Tail(s), Append(cur, Head(s)))
      ELSE (IF cur = <<>> THEN <<>> ELSE <<cur>>) \o FindAllRuns(Tail(s), <<>>)

\* The mutation of detect_lang that looks for a Turkish character before
\* it looks for an English keyword.
detect_lang_turkish_first(text) ==
  IF text = <<>>
    THEN "en"
    ELSE LET tokens == FindAllRuns(Lower(text), <<>>)
         IN IF \E i \in DOMAIN text : text[i] \in turkish_chars
              THEN "tr"
              ELSE IF \E i \in DOMAIN tokens : tokens[i] \in english_keywords
                THEN "en"
                ELSE "en"

detect_lang(text) ==
  IF text = <<>>
    THEN "en"
    ELSE LET tokens == FindAllRuns(Lower(text), <<>>)
         IN IF \E i \in DOMAIN tokens : tokens[i] \in english_keywords
              THEN "en"
              ELSE IF \E i \in DOMAIN text : text[i] \in turkish_chars
                THEN "tr"
                ELSE "en"


\* ------------------------------------------------ clean_generated_answer

AnswerMarker == <<"a", "n", "s", "w", "e", "r", ":">>

\* sub occurs in s at position i (1-based).
OccursAt(s, sub, i) ==
  /\ i >= 1
  /\ i + Len(sub) - 1 <= Len(s)
  /\ SubSeq(s, i, i + Len(sub) - 1) = sub

Occurrences(s, sub) == {i \in 1..Len(s) : OccursAt(s, sub, i)}

Min(S) == CHOOSE x \in S : \A y \in S : x <= y
Max(S) == CHOOSE x \in S : \A y \in S : x >= y

\* str.find(sub): the position of the first occurrence, 1-based; 0 for
\* Python's -1.
Find(s, sub) ==
  IF Occurrences(s, sub) = {} THEN 0 ELSE Min(Occurrences(s, sub))

\* s[i:] for a 1-based first kept position i.
SliceFrom(s, i) == IF i > Len(s) THEN <<>> ELSE SubSeq(s, i, Len(s))

OpeningQuotes == {"\"", "ldquo"}
ClosingQuotes == {"\"", "rdquo"}

\* The quote-stripping tail of clean_generated_answer: text[1:-1].strip()
\* when the text starts with an opening and ends with a closing quote.
StripQuotes(text) ==
  IF text # <<>> /\ text[1] \in OpeningQuotes /\ text[Len(text)] \in ClosingQuotes
    THEN (IF Len(text) < 3 THEN <<>> ELSE Strip(SubSeq(text, 2, Len(text) - 1)))
    ELSE text

\* The index is found in the lower-cased text and applied to the text itself.
clean_generated_answer(raw) ==
  LET text == Strip(raw)
      lower == Lower(text)
      idx == Find(lower, AnswerMarker)
      cut == IF idx # 0 THEN Strip(SliceFrom(text, idx + Len(AnswerMarker))) ELSE text
  IN StripQuotes(cut)

\* -------------------------------------------- components and startup

Collaborators == {"store", "embedder", "generator", "tr_en", "en_tr"}

\* AppComponents as constructed: every handle is None.
AppComponents ==
  [db_collection |-> None,
   embedding_model |-> None,
   generator_tokenizer |-> None,
   generator_model |-> None,
   translator_tr_en_tokenizer |-> None,
   translator_tr_en_model |-> None,
   translator_en_tr_tokenizer |-> None,
   translator_en_tr_model |-> None]

\* What one load can do.  A collaborator made of a tokenizer and a model is
\* loaded tokenizer first, so its load can fail before the tokenizer is
\* assigned or after it.
SingleOutcomes == {"ok", "fail"}
PairOutcomes == {"ok", "fail_tokenizer", "fail_model"}

LoadOutcomes ==
  [store : SingleOutcomes, embedder : SingleOutcomes, generator : PairOutcomes,
   tr_en : PairOutcomes, en_tr : PairOutcomes]

LoadTranslators(c, o) ==
  LET c1 == IF o.tr_en = "fail_tokenizer" THEN c
            ELSE IF o.tr_en = "fail_model"
              THEN [c EXCEPT !.translator_tr_en_tokenizer = Loaded]
              ELSE [c EXCEPT !.translator_tr_en_tokenizer = Loaded,
                             !.translator_tr_en_model = Loaded]
  IN IF o.en_tr = "fail_tokenizer" THEN c1
     ELSE IF o.en_tr = "fail_model"
       THEN [c1 EXCEPT !.translator_en_tr_tokenizer = Loaded]
       ELSE [c1 EXCEPT !.translator_en_tr_tokenizer = Loaded,
                       !.translator_en_tr_model = Loaded]

\* The mutation of initialize_components in which a failed TR->EN load
\* returns like the loads before it.
initialize_components_tr_en_returns(c, o) ==
  IF o.store = "fail" THEN c
  ELSE LET c1 == [c EXCEPT !.db_collection = Loaded]
  IN IF o.embedder = "fail" THEN c1
  ELSE LET c2 == [c1 EXCEPT !.embedding_model = Loaded]
  IN IF o.generator = "fail_tokenizer" THEN c2
  ELSE IF o.generator = "fail_model" THEN [c2 EXCEPT !.generator_tokenizer = Loaded]
  ELSE LET c3 == [c2 EXCEPT !.generator_tokenizer = Loaded, !.generator_model = Loaded]
  IN IF o.tr_en = "fail_tokenizer" THEN c3
  ELSE IF o.tr_en = "fail_model" THEN [c3 EXCEPT !.translator_tr_en_tokenizer = Loaded]
  ELSE LoadTranslators(c3, o)

\* The handles after initialize_components ran with load outcomes o: a failed
\* store, embedder or generator load returns; a failed translator load is
\* passed over.
initialize_components(c, o) ==
  IF o.store = "fail" THEN c
  ELSE LET c1 == [c EXCEPT !.db_collection = Loaded]
  IN IF o.embedder = "fail" THEN c1
  ELSE LET c2 == [c1 EXCEPT !.embedding_model = Loaded]
  IN IF o.generator = "fail_tokenizer" THEN c2
  ELSE IF o.generator = "fail_model" THEN [c2 EXCEPT !.generator_tokenizer = Loaded]
  ELSE LET c3 == [c2 EXCEPT !.generator_tokenizer = Loaded, !.generator_model = Loaded]
  IN LoadTranslators(c3, o)

\* What the startup log says of each collaborator: its load succeeded
\* ("ok"), failed ("failed"), or was never attempted.
StartupLog(o) ==
  LET attempted ==
        [store |-> TRUE,
         embedder |-> o.store = "ok",
         generator |-> o.store = "ok" /\ o.embedder = "ok",
         tr_en |-> o.store = "ok" /\ o.embedder = "ok" /\ o.generator = "ok",
         en_tr |-> o.store = "ok" /\ o.embedder = "ok" /\ o.generator = "ok"]
  IN [k \in Collaborators |->
        IF ~attempted[k] THEN "not_attempted"
        ELSE IF o[k] = "ok" THEN "ok" ELSE "failed"]

\* A collaborator is usable when every handle of it is set.
IsLoaded(c, k) ==
  CASE k = "store" -> c.db_collection # None
    [] k = "embedder" -> c.embedding_model # None
    [] k = "generator" -> c.generator_tokenizer # None /\ c.generator_model # None
    [] k = "tr_en" ->
         c.translator_tr_en_tokenizer # None /\ c.translator_tr_en_model # None
    [] k = "en_tr" ->
         c.translator_en_tr_tokenizer # None /\ c.translator_en_tr_model # None

\* ------------------------------------------------------ translate_text

\* What can go wrong inside one request: nothing, or a collaborator raises
\* when it is invoked (for the translators: at their first invocation).
Faults == {"none", "encode", "query", "translate", "generate"}

\* The Translator collaborator: the decoded output of the sequence-to-sequence
\* model for `text` in direction dir, a text determined by (dir, text) that
\* the tokenizer's decode may surround with white space.
TranslatorDecode(dir, text) ==
  <<" ", IF dir = "tr_en" THEN "<tr-en>" ELSE "<en-tr>">> \o text \o <<"\n">>

\* The mutation of TranslatorMissing that looks at the tokenizer only.
TranslatorMissingTokenizerOnly(tok, model) == tok = None

\* `if tok is None or model is None`
TranslatorMissing(tok, model) == tok = None \/ model = None

\* One invocation of a collaborator: who was invoked, on what.
Call(who, arg) == [who |-> who, arg |-> arg]

Returned(text, calls) == [raised |-> FALSE, text |-> text, calls |-> calls]
Raised(calls) == [raised |-> TRUE, text |-> <<>>, calls |-> calls]

\* The mutation of translate_text that returns every text as it is.
translate_text_identity(c, text, src_lang, tgt_lang, fault) == Returned(text, <<>>)

\* translate_text with handles c; the result carries the collaborator
\* invocations made and whether the call raised.
translate_text(c, text, src_lang, tgt_lang, fault) ==
  IF text = <<>> \/ src_lang = tgt_lang
    THEN Returned(text, <<>>)
    ELSE IF ~(src_lang = "tr" /\ tgt_lang = "en") /\ ~(src_lang = "en" /\ tgt_lang = "tr")
      THEN Returned(text, <<>>)
      ELSE LET dir == IF src_lang = "tr" THEN "tr_en" ELSE "en_tr"
               tok == IF dir = "tr_en" THEN c.translator_tr_en_tokenizer
                      ELSE c.translator_en_tr_tokenizer
               model == IF dir = "tr_en" THEN c.translator_tr_en_model
                        ELSE c.translator_en_tr_model
           IN IF TranslatorMissing(tok, model)
                THEN Returned(text, <<>>)
                ELSE IF fault = "translate"
                  THEN Raised(<<Call(dir, text)>>)
                  ELSE Returned(Strip(TranslatorDecode(dir, text)), <<Call(dir, text)>>)

\* ---------------------------------------------------- retrieve_context

\* n_results of retrieve_context.
n_results == 5

\* meta.get("source", "Unknown") and the four plain meta.get(...): the key of
\* a metadata record; an absent field reads None.
MetaKey(meta) ==
  [source |-> IF meta.source = None THEN "Unknown" ELSE meta.source,
   page |-> meta.page,
   paragraph |-> meta.paragraph,
   type |-> meta.type,
   lang |-> meta.lang]

\* The mutation of AlreadySeen that never suppresses a record.
AlreadySeenNever(key, seen) == FALSE

\* `if key in seen`
AlreadySeen(key, seen) == key \in seen

\* The loop over metadatas: sources so far, keys seen so far.
RECURSIVE DedupSources(_, _, _)
DedupSources(metadatas, sources, seen) ==
  IF metadatas = <<>>
    THEN sources
    ELSE LET key == MetaKey(Head(metadatas))
         IN IF AlreadySeen(key, seen)
              THEN DedupSources(Tail(metadatas), sources, seen)
              ELSE DedupSources(Tail(metadatas), Append(sources, key), seen \cup {key})

\* The mutation of NotInitialized that checks the store handle only.
NotInitializedStoreOnly(collection_handle, model) == collection_handle = None

\* `if collection is None or model is None` / `if tokenizer is None or model is None`
NotInitialized(collection_handle, model) == collection_handle = None \/ model = None

NotInitializedDetail == "API not initialized correctly."
RaisedDetail == "<message of the exception raised>"

\* retrieve_context for a store that answers the query with `rows` (its
\* stored records, nearest first).
retrieve_context(c, query, rows, fault) ==
  IF NotInitialized(c.db_collection, c.embedding_model)
    THEN [raised |-> TRUE, detail |-> NotInitializedDetail, calls |-> <<>>,
          context_chunks |-> <<>>, sources |-> <<>>]
    ELSE IF fault = "encode"
      THEN [raised |-> TRUE, detail |-> RaisedDetail,
            calls |-> <<Call("embedder", query)>>,
            context_chunks |-> <<>>, sources |-> <<>>]
      ELSE IF fault = "query"
        THEN [raised |-> TRUE, detail |-> RaisedDetail,
              calls |-> <<Call("embedder", query), Call("store", query)>>,
              context_chunks |-> <<>>, sources |-> <<>>]
        ELSE [raised |-> FALSE, detail |-> "",
              calls |-> <<Call("embedder", query), Call("store", query)>>,
              context_chunks |-> [i \in DOMAIN rows |-> rows[i].text],
              sources |-> DedupSources([i \in DOMAIN rows |-> rows[i].metadata],
                                       <<>>, {})]

\* ------------------------------------------- build_prompt, generate_answer

RECURSIVE Join(_, _)
Join(chunks, sep) ==
  IF chunks = <<>> THEN <<>>
  ELSE IF Len(chunks) = 1 THEN chunks[1]
  ELSE chunks[1] \o sep \o Join(Tail(chunks), sep)

\* The template's literals are atoms; the context, the query and the final
\* cue "Answer:" are spelled out.
build_prompt(query, context_chunks) ==
  LET context == Join(context_chunks, <<"\n", "\n">>)
      q_lang == detect_lang(query)
      language_rule == IF q_lang = "en" THEN "<3. MUST answer in clear English>"
                       ELSE "<3. MUST answer in clear Turkish>"
  IN <<"<You are an assistant ... RULES: 1. 2.>", language_rule, "<4. 5. 6.>",
       "<context>", "\n">>
     \o context
     \o <<"\n", "</context>", "\n", "\n", "Question: ">>
     \o query
     \o <<"\n", "A", "n", "s", "w", "e", "r", ":">>

\* The Generator collaborator decodes the whole output sequence: the prompt
\* followed by the continuation it generated.
GeneratorDecode(prompt, continuation) == prompt \o continuation

generate_answer(c, prompt, fault, continuation) ==
  IF NotInitialized(c.generator_tokenizer, c.generator_model)
    THEN [raised |-> TRUE, detail |-> NotInitializedDetail, calls |-> <<>>,
          answer |-> <<>>]
    ELSE IF fault = "generate"
      THEN [raised |-> TRUE, detail |-> RaisedDetail,
            calls |-> <<Call("generator", prompt)>>, answer |-> <<>>]
      ELSE [raised |-> FALSE, detail |-> "",
            calls |-> <<Call("generator", prompt)>>,
            answer |-> clean_generated_answer(GeneratorDecode(prompt, continuation))]

\* ------------------------------------------------------- chat_with_rag

FALLBACK_MESSAGE == <<"I'm sorry, I don't have that information in my knowledge base.">>

ChatResponse(answer, sources) ==
  [status |-> 200, answer |-> answer, sources |-> sources, detail |-> ""]

\* The mutation of ErrorResponse that swallows the exception and answers
\* with nothing.
ErrorResponseAsEmptyAnswer(detail) ==
  [status |-> 200, answer |-> <<>>, sources |-> <<>>, detail |-> ""]

\* `raise HTTPException(status_code=500, detail=str(e))`
ErrorResponse(detail) ==
  [status |-> 500, answer |-> <<>>, sources |-> <<>>, detail |-> detail]

NoResponse == [status |-> 0, answer |-> <<>>, sources |-> <<>>, detail |-> ""]

\* The mutation of NoContext that never takes the fallback branch.
NoContextNever(context_chunks) == FALSE

\* `if not context_chunks`
NoContext(context_chunks) == context_chunks = <<>>

\* The mutation of AppendTranslated that puts the chunk in front.
PrependTranslated(translated_chunks, translated) == <<translated>> \o translated_chunks

\* `translated_chunks.append(translated)`
AppendTranslated(translated_chunks, translated) == Append(translated_chunks, translated)

\* The mutation of TranslateChunks that leaves the loop after chunk i.
TranslateChunksFirstOnly(c, context_chunks, question_lang, fault, i, acc) ==
  IF i > Len(context_chunks)
    THEN acc
    ELSE LET chunk == context_chunks[i]
             chunk_lang == detect_lang(chunk)
             r == IF question_lang = "en" /\ chunk_lang = "tr"
                    THEN translate_text(c, chunk, "tr", "en", fault)
                    ELSE IF question_lang = "tr" /\ chunk_lang = "en"
                      THEN translate_text(c, chunk, "en", "tr", fault)
                      ELSE Returned(chunk, <<>>)
         IN IF r.raised
              THEN [acc EXCEPT !.raised = TRUE, !.calls = acc.calls \o r.calls]
              ELSE [raised |-> FALSE,
                    translated_chunks |-> Append(acc.translated_chunks, r.text),
                    chunk_langs |-> Append(acc.chunk_langs,
                                           IF r.calls = <<>> THEN chunk_lang
                                           ELSE question_lang),
                    calls |-> acc.calls \o r.calls]

\* The translation loop from chunk i on.  acc carries translated_chunks, the
\* language each of them is in (the detected language of a chunk passed as
\* it is, the target language of a translated one), and the invocations.
RECURSIVE TranslateChunks(_, _, _, _, _, _)
TranslateChunks(c, context_chunks, question_lang, fault, i, acc) ==
  IF i > Len(context_chunks)
    THEN acc
    ELSE LET chunk == context_chunks[i]
             chunk_lang == detect_lang(chunk)
             r == IF question_lang = "en" /\ chunk_lang = "tr"
                    THEN translate_text(c, chunk, "tr", "en", fault)
                    ELSE IF question_lang = "tr" /\ chunk_lang = "en"
                      THEN translate_text(c, chunk, "en", "tr", fault)
                      ELSE Returned(chunk, <<>>)
         IN IF r.raised
              THEN [acc EXCEPT !.raised = TRUE, !.calls = acc.calls \o r.calls]
              ELSE TranslateChunks(c, context_chunks, question_lang, fault, i + 1,
                     [raised |-> FALSE,
                      translated_chunks |-> AppendTranslated(acc.translated_chunks, r.text),
                      chunk_langs |-> Append(acc.chunk_langs,
                                             IF r.calls = <<>> THEN chunk_lang
                                             ELSE question_lang),
                      calls |-> acc.calls \o r.calls])

\* A request not yet handled: the handler's locals are unset.
IdleRequest ==
  [stage |-> "idle", query |-> <<>>, rows |-> <<>>, context_chunks |-> <<>>,
   sources_raw |-> <<>>, question_lang |-> "unset", translated_chunks |-> <<>>,
   chunk_langs |-> <<>>, prompt |-> <<>>, calls |-> <<>>, response |-> NoResponse]

\* The whole handler of POST /chat: the handler's locals at its end, the
\* collaborators it invoked in order, the point it ended at (stage) and its
\* response.  Every exception ends in the handler's `except`.
chat_with_rag(c, query, rows, fault, continuation) ==
  LET base == [IdleRequest EXCEPT !.query = query, !.rows = rows]
      ret == retrieve_context(c, query, rows, fault)
  IN IF ret.raised
       THEN [base EXCEPT !.stage = "retrieve_raised", !.calls = ret.calls,
                         !.response = ErrorResponse(ret.detail)]
       ELSE LET r1 == [base EXCEPT !.context_chunks = ret.context_chunks,
                                   !.sources_raw = ret.sources,
                                   !.calls = ret.calls]
            IN IF NoContext(ret.context_chunks)
                 THEN [r1 EXCEPT !.stage = "fallback",
                                 !.response = ChatResponse(FALLBACK_MESSAGE, <<>>)]
                 ELSE LET question_lang == detect_lang(query)
                          tr == TranslateChunks(c, ret.context_chunks, question_lang, fault, 1,
                                  [raised |-> FALSE, translated_chunks |-> <<>>,
                                   chunk_langs |-> <<>>, calls |-> <<>>])
                          r2 == [r1 EXCEPT !.question_lang = question_lang,
                                           !.translated_chunks = tr.translated_chunks,
                                           !.chunk_langs = tr.chunk_langs,
                                           !.calls = r1.calls \o tr.calls]
                      IN IF tr.raised
                           THEN [r2 EXCEPT !.stage = "translate_raised",
                                           !.response = ErrorResponse(RaisedDetail)]
                           ELSE LET prompt == build_prompt(query, tr.translated_chunks)
                                    gen == generate_answer(c, prompt, fault, continuation)
                                    r3 == [r2 EXCEPT !.prompt = prompt,
                                                     !.calls = r2.calls \o gen.calls]
                                IN IF gen.raised
                                     THEN [r3 EXCEPT !.stage = "generate_raised",
                                                     !.response = ErrorResponse(gen.detail)]
                                     ELSE [r3 EXCEPT !.stage = "answered",
                                                     !.response =
                                                       ChatResponse(gen.answer, ret.sources)]

\* ------------------------------------------- ingestion: chunk_documents

\* A Document's content is a sequence of paragraphs, each short enough for
\* one chunk; a paragraph is named by its number, and 0 names a paragraph
\* of white space only.  None stands for a missing field.
WhitespaceParagraph == 0

\* The text splitter collaborator: one chunk per paragraph that is not
\* white space, in document order.
split_text(content) == SelectSeq(content, LAMBDA p : p # WhitespaceParagraph)

\* f"doc{doc_idx}_chunk{chunk_idx}_global{global_idx}": the three numbers,
\* in decimal, between fixed literals.
ChunkId(doc_idx, chunk_idx, global_idx) ==
  <<"doc", doc_idx, "_chunk", chunk_idx, "_global", global_idx>>

\* meta_raw with doc.get('source', 'Unknown'); a None field is no key of
\* the metadata.
ChunkMetadata(doc) ==
  [source |-> IF doc.source = None THEN "Unknown" ELSE doc.source,
   page |-> doc.page,
   paragraph |-> doc.paragraph,
   type |-> doc.type,
   lang |-> doc.lang]

\* `if not doc.get('content')`: the key is absent, or the content is empty.
NoContent(doc) == ~doc.has_content \/ doc.content = <<>>

\* The mutation of NextGlobalIdx that leaves the counter where it is.
NextGlobalIdxStuck(global_idx) == global_idx

\* `global_idx += 1`
NextGlobalIdx(global_idx) == global_idx + 1

\* The inner loop: the chunks of one document from chunk_idx on (0-based).
RECURSIVE ChunkOneDocument(_, _, _, _, _)
ChunkOneDocument(doc, doc_idx, chunks, chunk_idx, acc) ==
  IF chunk_idx >= Len(chunks)
    THEN acc
    ELSE ChunkOneDocument(doc, doc_idx, chunks, chunk_idx + 1,
           [all_chunks |-> Append(acc.all_chunks,
                             [text |-> chunks[chunk_idx + 1],
                              metadata |-> ChunkMetadata(doc),
                              id |-> ChunkId(doc_idx, chunk_idx, acc.global_idx)]),
            global_idx |-> NextGlobalIdx(acc.global_idx)])

\* The outer loop from document doc_idx on (0-based, as enumerate counts).
RECURSIVE ChunkFrom(_, _, _)
ChunkFrom(documents, doc_idx, acc) ==
  IF doc_idx >= Len(documents)
    THEN acc
    ELSE LET doc == documents[doc_idx + 1]
         IN IF NoContent(doc)
              THEN ChunkFrom(documents, doc_idx + 1, acc)
              ELSE ChunkFrom(documents, doc_idx + 1,
                     ChunkOneDocument(doc, doc_idx, split_text(doc.content), 0, acc))

\* all_chunks of one call; global_idx starts at 0 in every call.
chunk_documents(documents) ==
  ChunkFrom(documents, 0, [all_chunks |-> <<>>, global_idx |-> 0]).all_chunks

\* ------------------------------------------- ingestion: embed_and_store

\* The Embedder collaborator: a vector determined by the text.
Encode(text) == <<"embedding of", text>>

StoredIds(records) == {records[i].id : i \in DOMAIN records}

\* collection.add of one batch: the records are appended in order; a record
\* whose id the collection already holds is not inserted again.
RECURSIVE CollectionAdd(_, _)
CollectionAdd(records, batch) ==
  IF batch = <<>>
    THEN records
    ELSE CollectionAdd(
           IF Head(batch).id \in StoredIds(records) THEN records
           ELSE Append(records, Head(batch)),
           Tail(batch))

MinOf(a, b) == IF a <= b THEN a ELSE b

\* The mutation of StoreBatches that stops before a last batch shorter than
\* batch_size.
RECURSIVE StoreBatchesFullOnly(_, _, _, _)
StoreBatchesFullOnly(rows, batch_size, i, acc) ==
  IF i + batch_size > Len(rows)
    THEN acc
    ELSE LET batch == SubSeq(rows, i + 1, i + batch_size)
         IN StoreBatchesFullOnly(rows, batch_size, i + batch_size,
              [records |-> CollectionAdd(acc.records, batch),
               add_calls |-> Append(acc.add_calls, batch)])

\* The batch loop from offset i on (0-based): acc carries the collection's
\* records and the batches handed to collection.add.
RECURSIVE StoreBatches(_, _, _, _)
StoreBatches(rows, batch_size, i, acc) ==
  IF i >= Len(rows)
    THEN acc
    ELSE LET batch_end == MinOf(i + batch_size, Len(rows))
             batch == SubSeq(rows, i + 1, batch_end)
         IN StoreBatches(rows, batch_size, i + batch_size,
              [records |-> CollectionAdd(acc.records, batch),
               add_calls |-> Append(acc.add_calls, batch)])

\* embed_and_store on a collection holding `records`: the records after it,
\* the batches added and the texts handed to model.encode.
embed_and_store(records, chunks, batch_size) ==
  IF chunks = <<>>
    THEN [records |-> records, add_calls |-> <<>>, encoded |-> <<>>]
    ELSE LET all_texts == [i \in DOMAIN chunks |-> chunks[i].text]
             rows == [i \in DOMAIN chunks |->
                        [id |-> chunks[i].id,
                         embedding |-> Encode(all_texts[i]),
                         text |-> all_texts[i],
                         metadata |-> chunks[i].metadata]]
             stored == StoreBatches(rows, batch_size, 0,
                         [records |-> records, add_calls |-> <<>>])
         IN [records |-> stored.records, add_calls |-> stored.add_calls,
             encoded |-> all_texts]

\* ------------------------------------------------------------------ state

VARIABLES
  components,   \* the process-wide AppComponents instance
  started,      \* the startup handler has run
  startup_log,  \* per collaborator: what initialize_components logged
  collection,   \* the records of the vector store, in insertion order
  req,          \* the /chat request being handled: the handler's locals
  frame,        \* the arguments of a function called on its own
  returned,     \* its return value
  documents,    \* the Document list the ingestion runs load
  all_chunks,   \* the chunks of the latest chunk_documents call
  add_calls,    \* the batches the latest embed_and_store added
  encoded,      \* the texts the latest embed_and_store had embedded
  batch_size,   \* the batch_size of the latest embed_and_store
  runs          \* per finished ingestion run, the chunk ids it produced

vars ==
  <<components, started, startup_log, collection, req, frame, returned,
    documents, all_chunks, add_calls, encoded, batch_size, runs>>

serverVars == <<components, started, startup_log, req>>
callVars == <<frame, returned>>
ingestVars == <<documents, all_chunks, add_calls, encoded, batch_size, runs>>

NoFrame == [fn |-> "none"]
NotReturned == [done |-> FALSE]

ServerAtRest ==
  /\ components = AppComponents
  /\ started = FALSE
  /\ startup_log = [k \in Collaborators |-> "not_attempted"]
  /\ req = IdleRequest

CallAtRest == frame = NoFrame /\ returned = NotReturned

\* `batch_size=32`, the default of embed_and_store.
DefaultBatchSize == 32

IngestAtRest ==
  /\ documents = <<>>
  /\ all_chunks = <<>>
  /\ add_calls = <<>>
  /\ encoded = <<>>
  /\ batch_size = DefaultBatchSize
  /\ runs = <<>>

\* ------------------------------------------------------ the query server

NoMeta == [source |-> None, page |-> None, paragraph |-> None, type |-> None, lang |-> None]

\* The store the server answers from: chunks of a parsed document (no type,
\* no lang), of a scraped page, and of records whose source is absent or is
\* the literal "Unknown".  Chunk texts are not empty, as the chunker leaves
\* them.
KnowledgeBase ==
  LET row(n, text, meta) ==
        [id |-> ChunkId(0, n, n), embedding |-> Encode(text), text |-> text,
         metadata |-> meta]
      faq == [NoMeta EXCEPT !.source = "faq.pdf"]
      page == [NoMeta EXCEPT !.source = "http://agu", !.type = "paragraph", !.lang = "tr"]
  IN << row(0, <<"i", "s", " ", "o", "k">>, faq),
        row(1, <<"u_diaeresis", "c", "r", "e", "t">>, faq),
        row(2, <<"s_cedilla", "u">>, page),
        row(3, <<"k", "r", "e", "d", "i">>, NoMeta),
        row(4, <<"d", "o", " ", "g_breve">>, [NoMeta EXCEPT !.source = "Unknown"]) >>

\* Questions: English by keyword, Turkish by character, and English by
\* keyword in spite of a Turkish character.
Queries ==
  { <<"w", "h", "o", "?">>,
    <<"u_diaeresis", "c", "r", "e", "t", "?">>,
    <<"i", "s", " ", "u_diaeresis">> }

\* What the generator may add to the prompt.
Continuations ==
  { <<" ", "\"", "o", "k", "\"">>, <<" ", "n", "o", "\n">>,
    <<" ">> \o FALLBACK_MESSAGE }

IsInjective(f) == \A i, j \in DOMAIN f : f[i] = f[j] => i = j

\* The answers of the store to a query: up to n_results different records
\* of the collection, in any order of relevance.
QueryResults(records) ==
  LET k == MinOf(MinOf(MaxResults, n_results), Len(records))
      picks == UNION {[1..n -> DOMAIN records] : n \in 0..k}
  IN {[i \in DOMAIN f |-> records[f[i]]] : f \in {g \in picks : IsInjective(g)}}

Init ==
  /\ ServerAtRest
  /\ collection = KnowledgeBase
  /\ CallAtRest
  /\ IngestAtRest

\* The startup handler, once, before any request is served.
Startup ==
  /\ ~started
  /\ \E o \in LoadOutcomes :
       /\ components' = initialize_components(components, o)
       /\ startup_log' = StartupLog(o)
  /\ started' = TRUE
  /\ UNCHANGED <<collection, req, callVars, ingestVars>>

\* The mutation of ChatWithRag in which a request loads the translators
\* that startup left unloaded.
ChatWithRagLoadsTranslators ==
  /\ started
  /\ req.stage = "idle"
  /\ \E query \in Queries, rows \in QueryResults(collection),
        fault \in Faults, continuation \in Continuations :
       req' = chat_with_rag(components, query, rows, fault, continuation)
  /\ components' = [components EXCEPT !.translator_tr_en_tokenizer = Loaded,
                                      !.translator_tr_en_model = Loaded,
                                      !.translator_en_tr_tokenizer = Loaded,
                                      !.translator_en_tr_model = Loaded]
  /\ UNCHANGED <<started, startup_log, collection, callVars, ingestVars>>

\* POST /chat, handled from the first line to the response.
ChatWithRag ==
  /\ started
  /\ req.stage = "idle"
  /\ \E query \in Queries, rows \in QueryResults(collection),
        fault \in Faults, continuation \in Continuations :
       req' = chat_with_rag(components, query, rows, fault, continuation)
  /\ UNCHANGED <<components, started, startup_log, collection, callVars, ingestVars>>

\* The response is sent and the handler's locals are gone.
Respond ==
  /\ req.stage # "idle"
  /\ req' = IdleRequest
  /\ UNCHANGED <<components, started, startup_log, collection, callVars, ingestVars>>

Next == Startup \/ ChatWithRag \/ Respond

Spec == Init /\ [][Next]_vars

\* ------------------------------------------------ claims on the server

RetrievalReturned == req.stage \notin {"idle", "retrieve_raised"}
PromptBuilt == req.stage \in {"generate_raised", "answered"}
Invoked(who) == \E i \in DOMAIN req.calls : req.calls[i].who = who

\* The translator that turns a chunk of language chunk_lang into the other
\* language.
NeededTranslator(chunk_lang) == IF chunk_lang = "tr" THEN "tr_en" ELSE "en_tr"

\* C1: a request whose retrieval returns zero chunks is answered with the
\* fixed fallback message and an empty sources list, and invokes neither
\* the generator nor a translator, whatever is loaded.
C1_FallbackOnNoContext ==
  (RetrievalReturned /\ req.context_chunks = <<>>) =>
    /\ req.response = ChatResponse(FALLBACK_MESSAGE, <<>>)
    /\ ~Invoked("generator")
    /\ ~Invoked("tr_en")
    /\ ~Invoked("en_tr")

\* C1 witness: zero chunks retrieved with generator and translators loaded.
C1_Witness ==
  /\ req.stage = "fallback"
  /\ req.rows = <<>>
  /\ \A k \in Collaborators : IsLoaded(components, k)

\* C2 as stated: every chunk handed to build_prompt is in the language of
\* the question, in every load state of the translators.
C2_Original ==
  PromptBuilt =>
    \A i \in DOMAIN req.chunk_langs : req.chunk_langs[i] = req.question_lang

\* C2 amended: every chunk handed to build_prompt is in the language of the
\* question, except a chunk of the other language whose translator is not
\* loaded, which is handed over as it was retrieved.
C2_LanguageConsistency ==
  PromptBuilt =>
    /\ DOMAIN req.chunk_langs = DOMAIN req.context_chunks
    /\ DOMAIN req.translated_chunks = DOMAIN req.context_chunks
    /\ \A i \in DOMAIN req.context_chunks :
         \/ req.chunk_langs[i] = req.question_lang
         \/ /\ ~IsLoaded(components, NeededTranslator(detect_lang(req.context_chunks[i])))
            /\ req.translated_chunks[i] = req.context_chunks[i]

\* C2 witness: a chunk of the other language reached build_prompt translated.
C2_Witness ==
  /\ PromptBuilt
  /\ \E i \in DOMAIN req.context_chunks :
       /\ detect_lang(req.context_chunks[i]) # req.question_lang
       /\ req.chunk_langs[i] = req.question_lang
       /\ req.translated_chunks[i] # req.context_chunks[i]

\* The collaborators whose failed load ends initialize_components, and the
\* order of the loads.
Critical == {"store", "embedder", "generator"}
LoadOrder == <<"store", "embedder", "generator", "tr_en", "en_tr">>
LoadedBefore(k) ==
  {LoadOrder[i] : i \in {j \in DOMAIN LoadOrder : j < IndexOf(LoadOrder, k)}}

\* C4 as stated: after startup every collaborator whose own load did not
\* fail is loaded.
C4_Original ==
  started =>
    \A k \in Collaborators : startup_log[k] # "failed" => IsLoaded(components, k)

\* C4 amended: after startup a collaborator is loaded exactly when its own
\* load did not fail and no load of store, embedder or generator before it
\* failed; a failed translator load keeps nothing else from loading.
C4_DegradedStartup ==
  started =>
    \A k \in Collaborators :
      IsLoaded(components, k) <=>
        /\ startup_log[k] # "failed"
        /\ \A j \in LoadedBefore(k) \cap Critical : startup_log[j] # "failed"

\* C4 witness: the TR->EN load failed and everything else is loaded.
C4_Witness ==
  /\ started
  /\ startup_log["tr_en"] = "failed"
  /\ \A k \in Collaborators \ {"tr_en"} : IsLoaded(components, k)

\* C5 as stated: a request handled while store, embedder or generator is
\* absent gets the not-initialized server error, never an answer or the
\* fallback, and does not invoke the absent collaborator.
C5_Original ==
  (req.stage # "idle" /\ \E k \in Critical : ~IsLoaded(components, k)) =>
    /\ req.response.status = 500
    /\ \A k \in Critical : ~IsLoaded(components, k) => ~Invoked(k)

\* C5 amended: with store or embedder absent the request fails at once with
\* the not-initialized error and invokes nothing; with only the generator
\* absent it gets the fallback when retrieval returns no chunk and the
\* not-initialized error otherwise, and the generator is never invoked.
C5_FailFast ==
  req.stage # "idle" =>
    /\ (~IsLoaded(components, "store") \/ ~IsLoaded(components, "embedder")) =>
         /\ req.response = ErrorResponse(NotInitializedDetail)
         /\ req.calls = <<>>
    /\ (~IsLoaded(components, "generator") /\ RetrievalReturned) =>
         /\ ~Invoked("generator")
         /\ IF req.context_chunks = <<>>
              THEN req.response = ChatResponse(FALLBACK_MESSAGE, <<>>)
              ELSE req.response = ErrorResponse(NotInitializedDetail)

\* C5 witness: chunks were retrieved and the absent generator stopped the
\* request.
C5_Witness ==
  /\ req.stage = "generate_raised"
  /\ ~IsLoaded(components, "generator")
  /\ req.context_chunks # <<>>
  /\ req.response.status = 500

\* What chunk i is to become for a question in question_lang.
ExpectedChunk(chunk, question_lang) ==
  LET chunk_lang == detect_lang(chunk)
  IN IF chunk_lang = question_lang \/ ~IsLoaded(components, NeededTranslator(chunk_lang))
       THEN chunk
       ELSE Strip(TranslatorDecode(NeededTranslator(chunk_lang), chunk))

\* The translator invocations chunks i.. call for, in order.
RECURSIVE ExpectedTranslatorCalls(_, _)
ExpectedTranslatorCalls(chunks, question_lang) ==
  IF chunks = <<>>
    THEN <<>>
    ELSE LET chunk_lang == detect_lang(Head(chunks))
         IN (IF chunk_lang # question_lang
                 /\ IsLoaded(components, NeededTranslator(chunk_lang))
               THEN <<Call(NeededTranslator(chunk_lang), Head(chunks))>>
               ELSE <<>>)
            \o ExpectedTranslatorCalls(Tail(chunks), question_lang)

TranslatorCalls == SelectSeq(req.calls, LAMBDA call : call.who \in {"tr_en", "en_tr"})

\* C7: translated_chunks has the length and order of the retrieved chunks,
\* position i holding chunk i itself or its translation into the question's
\* language, and the translator is invoked once for each translated chunk,
\* in order, in the direction chunk language -> question language.
C7_ChunksInOrder ==
  PromptBuilt =>
    /\ Len(req.translated_chunks) = Len(req.context_chunks)
    /\ \A i \in DOMAIN req.context_chunks :
         req.translated_chunks[i] = ExpectedChunk(req.context_chunks[i], req.question_lang)
    /\ TranslatorCalls = ExpectedTranslatorCalls(req.context_chunks, req.question_lang)

\* C7 witness: of several chunks one was translated and another passed on.
C7_Witness ==
  /\ PromptBuilt
  /\ Len(req.context_chunks) >= 2
  /\ \E i, j \in DOMAIN req.context_chunks :
       /\ req.translated_chunks[i] # req.context_chunks[i]
       /\ req.translated_chunks[j] = req.context_chunks[j]
       /\ req.context_chunks[i] # req.context_chunks[j]

RowKeys == [i \in DOMAIN req.rows |-> MetaKey(req.rows[i].metadata)]
FirstIndex(seq, x) == Min({i \in DOMAIN seq : seq[i] = x})

\* C8: sources holds one entry per distinct (source, page, paragraph, type,
\* lang) tuple of the returned metadata, in order of first occurrence, and
\* the chunk texts are the store's, in its order, duplicates included.
C8_SourcesDeduplicated ==
  RetrievalReturned =>
    /\ IsInjective(req.sources_raw)
    /\ Range(req.sources_raw) = Range(RowKeys)
    /\ \A a, b \in DOMAIN req.sources_raw :
         a < b => FirstIndex(RowKeys, req.sources_raw[a]) < FirstIndex(RowKeys, req.sources_raw[b])
    /\ req.context_chunks = [i \in DOMAIN req.rows |-> req.rows[i].text]

\* C8 witness: the metadata [A, A, B] gave the sources [A, B].
C8_Witness ==
  /\ RetrievalReturned
  /\ Len(req.rows) = 3
  /\ RowKeys[1] = RowKeys[2]
  /\ RowKeys[2] # RowKeys[3]
  /\ req.sources_raw = <<RowKeys[1], RowKeys[3]>>
  /\ Len(req.context_chunks) = 3

\* ------------------------------------ clean_generated_answer on its own

\* What a raw decoded text is made of: the cue in two spellings, a letter,
\* white space, quotation marks, and a capital whose lower case is two
\* characters long.
Pieces ==
  { AnswerMarker, <<"A", "n", "s", "w", "e", "r", ":">>, <<"x">>, <<" ">>,
    <<"\"">>, <<"ldquo">>, <<"rdquo">>, <<"I_DOT">> }

RECURSIVE TextsOfPieces(_)
TextsOfPieces(n) ==
  IF n = 0 THEN {<<>>}
  ELSE LET shorter == TextsOfPieces(n - 1)
       IN shorter \cup {t \o piece : t \in shorter, piece \in Pieces}

RawAnswers == TextsOfPieces(MaxPieces)

InitClean ==
  /\ ServerAtRest
  /\ collection = <<>>
  /\ IngestAtRest
  /\ frame \in {[fn |-> "clean_generated_answer", raw |-> raw] : raw \in RawAnswers}
  /\ returned = NotReturned

CleanGeneratedAnswer ==
  /\ frame.fn = "clean_generated_answer"
  /\ ~returned.done
  /\ returned' = [done |-> TRUE, text |-> clean_generated_answer(frame.raw)]
  /\ UNCHANGED <<serverVars, collection, frame, ingestVars>>

NextClean == CleanGeneratedAnswer

SpecClean == InitClean /\ [][NextClean]_vars

\* The places where the cue stands in text, whatever the case of its letters.
CueOccurrences(text) ==
  {i \in 1..Len(text) :
     /\ i + Len(AnswerMarker) - 1 <= Len(text)
     /\ Lower(SubSeq(text, i, i + Len(AnswerMarker) - 1)) = AnswerMarker}

\* C3: clean_generated_answer keeps only what follows the last occurrence
\* of "answer:" (in any case) in the raw text, and keeps the whole text when
\* the cue is absent; quotation marks around the kept text are removed.
C3_CutsAtLastCue ==
  returned.done =>
    LET text == Strip(frame.raw)
        cues == CueOccurrences(text)
    IN returned.text =
         IF cues = {} THEN StripQuotes(text)
         ELSE StripQuotes(Strip(SliceFrom(text, Max(cues) + Len(AnswerMarker))))

\* ---------------------------------------------- translate_text on its own

LangCodes == {"en", "tr", "de"}
TranslateTexts == {<<>>, <<"i", "s">>, <<"s_cedilla", "u">>}

InitTranslate ==
  /\ \E o \in LoadOutcomes :
       /\ components = initialize_components(AppComponents, o)
       /\ startup_log = StartupLog(o)
  /\ started = TRUE
  /\ req = IdleRequest
  /\ collection = <<>>
  /\ IngestAtRest
  /\ frame \in [fn : {"translate_text"}, text : TranslateTexts, src_lang : LangCodes,
                tgt_lang : LangCodes, fault : {"none", "translate"}]
  /\ returned = NotReturned

TranslateText ==
  /\ frame.fn = "translate_text"
  /\ ~returned.done
  /\ LET r == translate_text(components, frame.text, frame.src_lang, frame.tgt_lang,
                             frame.fault)
     IN returned' = [done |-> TRUE, raised |-> r.raised, text |-> r.text, calls |-> r.calls]
  /\ UNCHANGED <<serverVars, collection, frame, ingestVars>>

NextTranslate == TranslateText

SpecTranslate == InitTranslate /\ [][NextTranslate]_vars

SupportedPair(src_lang, tgt_lang) ==
  \/ src_lang = "en" /\ tgt_lang = "tr"
  \/ src_lang = "tr" /\ tgt_lang = "en"

\* C6: translate_text returns its input unchanged and invokes no translator
\* when the text is empty, when src == tgt, when (src, tgt) is not en->tr or
\* tr->en, or when the tokenizer or the model of the direction is not loaded.
C6_TranslateNoOp ==
  ( /\ returned.done
    /\ \/ frame.text = <<>>
       \/ frame.src_lang = frame.tgt_lang
       \/ ~SupportedPair(frame.src_lang, frame.tgt_lang)
       \/ ~IsLoaded(components, NeededTranslator(frame.src_lang)) )
  => /\ ~returned.raised
     /\ returned.text = frame.text
     /\ returned.calls = <<>>

\* C6 witness: a Turkish text for tr->en with the tokenizer loaded and the
\* model not comes back as it is.
C6_Witness ==
  /\ returned.done
  /\ frame.text # <<>>
  /\ frame.src_lang = "tr"
  /\ frame.tgt_lang = "en"
  /\ components.translator_tr_en_tokenizer # None
  /\ components.translator_tr_en_model = None
  /\ returned.text = frame.text
  /\ returned.calls = <<>>

\* -------------------------------------------------------- ingestion runs

NoDoc ==
  [has_content |-> TRUE, content |-> <<>>, source |-> None, page |-> None,
   paragraph |-> None, type |-> None, lang |-> None]

\* The documents of the data directory: a record without 'content', one
\* with empty content, a scraped page of white space, and parsed or scraped
\* documents of 1..MaxChunksPerDoc paragraphs.
Docs ==
  { [NoDoc EXCEPT !.has_content = FALSE, !.source = "x.docx"],
    NoDoc,
    [NoDoc EXCEPT !.content = <<WhitespaceParagraph>>, !.source = "http://ws",
                  !.type = "paragraph", !.lang = "en"] }
  \cup { [NoDoc EXCEPT !.content = [i \in 1..n |-> i], !.source = "a.pdf"] : n \in {1} }
  \cup { [NoDoc EXCEPT !.content = [i \in 1..n |-> i], !.source = "http://agu",
                       !.type = "paragraph", !.lang = "tr"] : n \in 2..MaxChunksPerDoc }

DocumentLists == UNION {[1..n -> Docs] : n \in 0..MaxDocs}

\* main() from step 4 on, for the loaded documents: nothing happens without
\* documents; else the documents are chunked and the chunks stored.
main(records, docs, size) ==
  IF docs = <<>>
    THEN [records |-> records, all_chunks |-> <<>>, add_calls |-> <<>>, encoded |-> <<>>]
    ELSE LET chunks == chunk_documents(docs)
             stored == embed_and_store(records, chunks, size)
         IN [records |-> stored.records, all_chunks |-> chunks,
             add_calls |-> stored.add_calls, encoded |-> stored.encoded]

InitIngest ==
  /\ ServerAtRest
  /\ CallAtRest
  /\ collection = <<>>
  /\ documents \in DocumentLists
  /\ all_chunks = <<>>
  /\ add_calls = <<>>
  /\ encoded = <<>>
  /\ batch_size = DefaultBatchSize
  /\ runs = <<>>

\* One ingestion run over the same documents against the same store, for
\* a batch_size of embed_and_store.
Ingest ==
  /\ Len(runs) < MaxRuns
  /\ \E size \in 1..MaxBatch :
       LET run == main(collection, documents, size)
       IN /\ batch_size' = size
          /\ collection' = run.records
          /\ all_chunks' = run.all_chunks
          /\ add_calls' = run.add_calls
          /\ encoded' = run.encoded
          /\ runs' = Append(runs, [i \in DOMAIN run.all_chunks |-> run.all_chunks[i].id])
  /\ UNCHANGED <<serverVars, callVars, documents>>

NextIngest == Ingest

SpecIngest == InitIngest /\ [][NextIngest]_vars

\* C9: no chunk id of a second ingestion run over the same documents equals
\* a chunk id of the first run.
C9_NewIdsOnRerun ==
  Len(runs) >= 2 => Range(runs[1]) \cap Range(runs[2]) = {}

\* The run-global counter component of a chunk id.
GlobalOf(id) == id[6]

\* C10: within one chunk_documents call no two chunks have the same id and
\* the run-global counter strictly increases from each chunk to the next.
C10_UniqueIdsInRun ==
  \A i, j \in DOMAIN all_chunks :
    i < j => /\ all_chunks[i].id # all_chunks[j].id
             /\ GlobalOf(all_chunks[i].id) < GlobalOf(all_chunks[j].id)

\* C10 witness: two documents of identical content, several chunks each,
\* around a skipped document.
C10_Witness ==
  /\ Len(runs) >= 1
  /\ Len(documents) = 3
  /\ documents[1] = documents[3]
  /\ Len(documents[1].content) >= 2
  /\ NoContent(documents[2])
  /\ Len(all_chunks) = 2 * Len(documents[1].content)

RECURSIVE Concat(_)
Concat(seqs) == IF seqs = <<>> THEN <<>> ELSE Head(seqs) \o Concat(Tail(seqs))

\* The record the store is to hold for a chunk.
RowOf(chunk) ==
  [id |-> chunk.id, embedding |-> Encode(chunk.text), text |-> chunk.text,
   metadata |-> chunk.metadata]

\* C11: embed_and_store hands every chunk to the store once, with its own
\* id, embedding, text and metadata, in batches of at most batch_size whose
\* concatenation is the chunk list; what the store holds afterwards does
\* not depend on batch_size; an empty chunk list embeds and writes nothing.
C11_BatchedStore ==
  Len(runs) >= 1 =>
    /\ Concat(add_calls) = [i \in DOMAIN all_chunks |-> RowOf(all_chunks[i])]
    /\ \A b \in DOMAIN add_calls :
         Len(add_calls[b]) >= 1 /\ Len(add_calls[b]) <= batch_size
    /\ encoded = [i \in DOMAIN all_chunks |-> all_chunks[i].text]
    /\ Len(runs) = 1 => collection = [i \in DOMAIN all_chunks |-> RowOf(all_chunks[i])]
    /\ all_chunks = <<>> => add_calls = <<>> /\ encoded = <<>> /\ collection = <<>>

\* C11 witness: three chunks of two documents went to the store in a batch
\* of two and a batch of one.
C11_Witness ==
  /\ Len(runs) = 1
  /\ batch_size = 2
  /\ Len(all_chunks) = 3
  /\ all_chunks[1].metadata # all_chunks[3].metadata
  /\ Len(add_calls) = 2
  /\ Len(add_calls[2]) = 1
  /\ Len(collection) = 3

\* --------------------------------------------------- detect_lang on its own

\* The characters of the texts: letters of the keywords "do", "is" and
\* "did" in both cases, Turkish letters, a capital whose lower case is two
\* characters long, and a blank.
DetectAlphabet == {"d", "o", "i", "s", "I", "g_breve", "I_DOT", " "}

DetectTexts == UNION {[1..n -> DetectAlphabet] : n \in 0..MaxTextLen}

InitDetect ==
  /\ ServerAtRest
  /\ collection = <<>>
  /\ IngestAtRest
  /\ frame \in {[fn |-> "detect_lang", text |-> text] : text \in DetectTexts}
  /\ returned = NotReturned

DetectLang ==
  /\ frame.fn = "detect_lang"
  /\ ~returned.done
  /\ returned' = [done |-> TRUE, lang |-> detect_lang(frame.text)]
  /\ UNCHANGED <<serverVars, collection, frame, ingestVars>>

NextDetect == DetectLang

SpecDetect == InitDetect /\ [][NextDetect]_vars

HasTurkishChar(text) == \E i \in DOMAIN text : text[i] \in turkish_chars

\* A letter of a word: an ASCII letter or a Turkish-specific letter.
IsWordLetter(c) == IsAsciiLetter(c) \/ c \in turkish_chars

\* text[i..j] is a word: a maximal run of letters, accented ones included.
IsWordAt(text, i, j) ==
  /\ i <= j
  /\ \A k \in i..j : IsWordLetter(text[k])
  /\ i = 1 \/ ~IsWordLetter(text[i - 1])
  /\ j = Len(text) \/ ~IsWordLetter(text[j + 1])

HasKeywordWord(text) ==
  \E i, j \in DOMAIN text :
    IsWordAt(text, i, j) /\ Lower(SubSeq(text, i, j)) \in english_keywords

\* C12: a text none of whose words (accented letters included) is an English
\* keyword and which has a Turkish-specific character is detected as tr.
C12_TurkishByCharacter ==
  (returned.done /\ ~HasKeywordWord(frame.text) /\ HasTurkishChar(frame.text))
    => returned.lang = "tr"

\* The lower-cased text holds a keyword as a maximal run of ASCII letters.
HasKeywordToken(text) ==
  LET lower == Lower(text)
  IN \E i, j \in DOMAIN lower :
       /\ i <= j
       /\ SubSeq(lower, i, j) \in english_keywords
       /\ i = 1 \/ ~IsAsciiLetter(lower[i - 1])
       /\ j = Len(lower) \/ ~IsAsciiLetter(lower[j + 1])

\* C13: detect_lang gives en for the empty text; else en when a token is an
\* English keyword, whatever Turkish characters there are; else en exactly
\* when the text has no Turkish-specific character; it gives en or tr.
C13_DetectPrecedence ==
  returned.done =>
    /\ returned.lang \in {"en", "tr"}
    /\ frame.text = <<>> => returned.lang = "en"
    /\ HasKeywordToken(frame.text) => returned.lang = "en"
    /\ (frame.text # <<>> /\ ~HasKeywordToken(frame.text)) =>
         (returned.lang = "en" <=> ~HasTurkishChar(frame.text))

\* C13 witness: a keyword beside a Turkish character gave en.
C13_Witness ==
  /\ returned.done
  /\ HasKeywordToken(frame.text)
  /\ HasTurkishChar(frame.text)
  /\ returned.lang = "en"

\* ------------------------------------- more claims on the query server

RaisedStages == {"retrieve_raised", "translate_raised", "generate_raised"}

IsFallbackOutcome ==
  /\ req.response = ChatResponse(FALLBACK_MESSAGE, <<>>)
  /\ ~Invoked("generator")

IsAnswerOutcome ==
  /\ req.response.status = 200
  /\ req.response.sources = req.sources_raw
  /\ req.response.sources # <<>>
  /\ IsInjective(req.response.sources)
  /\ Invoked("generator")

IsErrorOutcome ==
  /\ req.response.status = 500
  /\ req.response.detail # ""
  /\ req.response.answer = <<>>
  /\ req.response.sources = <<>>

\* C14: a handled request ends in exactly one of the fallback, a generated
\* answer with the deduplicated sources, or a 500 response with a message;
\* whatever raised in retrieval, translation or generation ends in the 500
\* response, with no answer and no sources in it.
C14_ThreeOutcomes ==
  req.stage # "idle" =>
    /\ \/ IsFallbackOutcome /\ ~IsAnswerOutcome /\ ~IsErrorOutcome
       \/ ~IsFallbackOutcome /\ IsAnswerOutcome /\ ~IsErrorOutcome
       \/ ~IsFallbackOutcome /\ ~IsAnswerOutcome /\ IsErrorOutcome
    /\ req.stage \in RaisedStages <=> IsErrorOutcome
    /\ req.stage = "fallback" <=> IsFallbackOutcome
    /\ req.stage = "answered" <=> IsAnswerOutcome

\* C14 witness: the loaded generator raised and the request ended in the
\* 500 response with the exception's message.
C14_Witness ==
  /\ req.stage = "generate_raised"
  /\ IsLoaded(components, "generator")
  /\ Invoked("generator")
  /\ req.response = ErrorResponse(RaisedDetail)

\* The place of a collaborator in the order of the stages.
StageRank(who) ==
  CASE who = "embedder" -> 1
    [] who = "store" -> 2
    [] who \in {"tr_en", "en_tr"} -> 3
    [] who = "generator" -> 4

IsPrefix(s, t) == Len(s) <= Len(t) /\ s = SubSeq(t, 1, Len(s))

\* C15: the collaborators are invoked in the order embedder, store,
\* translators (chunk by chunk, in retrieval order), generator; the
\* generator is invoked at most once, on the prompt built from all the
\* resolved chunks, and no translator is invoked after it.
C15_StagesInOrder ==
  req.stage # "idle" =>
    /\ \A i, j \in DOMAIN req.calls :
         i < j => \/ StageRank(req.calls[i].who) < StageRank(req.calls[j].who)
                  \/ /\ StageRank(req.calls[i].who) = 3
                     /\ StageRank(req.calls[j].who) = 3
    /\ IsPrefix(TranslatorCalls,
                ExpectedTranslatorCalls(req.context_chunks, detect_lang(req.query)))
    /\ TranslatorCalls # <<>> => req.question_lang = detect_lang(req.query)
    /\ Invoked("generator") =>
         /\ Len(req.translated_chunks) = Len(req.context_chunks)
         /\ req.context_chunks # <<>>
         /\ req.calls[Len(req.calls)] =
              Call("generator", build_prompt(req.query, req.translated_chunks))
    /\ req.prompt # <<>> => Len(req.translated_chunks) = Len(req.context_chunks)

\* C15 witness: two chunks were translated, then the generator answered.
C15_Witness ==
  /\ req.stage = "answered"
  /\ Len(TranslatorCalls) >= 2
  /\ req.calls[Len(req.calls)].who = "generator"

\* C16: once startup is over no step changes the collaborator handles or
\* the contents of the store, and every request starts from fresh locals.
C16_RequestsLeaveStateAlone ==
  [][started =>
       /\ components' = components
       /\ collection' = collection
       /\ startup_log' = startup_log
       /\ started'
       /\ req'.stage # "idle" => req = IdleRequest]_vars

\* C16 witness: a request that used store, embedder, a translator and the
\* generator was answered, and every collaborator is still loaded.
C16_Witness ==
  /\ started
  /\ req.stage = "answered"
  /\ TranslatorCalls # <<>>
  /\ \A k \in Collaborators : IsLoaded(components, k)
  /\ collection = KnowledgeBase

====
